---- MODULE Spec2Model ----
(***************************************************************************)
(* stdpopsim/homo_sapiens.py: the genetic map registration, the genome     *)
(* definition and the two demographic models for humans.                   *)
(*                                                                         *)
(* Import runs the module-level statements in order (register the genetic  *)
(* map, parse the chromosome table row by row, build the genome); after    *)
(* it, callers construct GutenkunstThreePopOutOfAfrica and                 *)
(* TennessenEuropean objects.                                              *)
(*                                                                         *)
(* Numbers.  Literals and quotients of literals are exact rationals        *)
(* [n, d] in lowest terms.  math.exp is evaluated in fixed point with      *)
(* FixScale units per 1 (about five significant digits), and a size        *)
(* obtained by dividing by it is kept to 1/SizeScale of an individual.     *)
(* Strings that the code takes apart (the chromosome table) are sequences  *)
(* of one-character strings.                                               *)
(***************************************************************************)
EXTENDS Integers, Sequences, FiniteSets, TLC

VARIABLES pc, registry, line_no, _chromosomes, genome, instances

vars == <<pc, registry, line_no, _chromosomes, genome, instances>>

\* How many model objects callers construct in one run.
MaxInstances == 6

None == [none |-> TRUE]

-----------------------------------------------------------------------------
(* Rational arithmetic for the float literals and their quotients.         *)

Abs(x) == IF x < 0 THEN -x ELSE x

RECURSIVE GCD(_, _)
GCD(a, b) == IF b = 0 THEN a ELSE GCD(b, a % b)

\* The rational n/d in lowest terms with a positive denominator.
Rat(n, d) ==
    LET s == IF d < 0 THEN -1 ELSE 1
        g == GCD(Abs(n), Abs(d))
    IN  [n |-> (s * n) \div g, d |-> (s * d) \div g]

Num(k) == Rat(k, 1)

RatNeg(a) == [n |-> -a.n, d |-> a.d]

\* a * b, cancelling across the two fractions before multiplying.
RatMul(a, b) ==
    LET g1 == GCD(Abs(a.n), b.d)
        g2 == GCD(Abs(b.n), a.d)
    IN  Rat((a.n \div g1) * (b.n \div g2), (a.d \div g2) * (b.d \div g1))

\* a / b for b # 0 (Python's true division).
RatDiv(a, b) == RatMul(a, Rat(b.d, b.n))

-----------------------------------------------------------------------------
(* math.exp and the division by its result, in fixed point.                *)

\* Fixed-point units per 1 in the evaluation of math.exp.
FixScale == 1000 * 1000

\* Units per individual of a population size derived from math.exp.
SizeScale == 10 * 10

\* Terms of the exponential series that are summed.
ExpTerms == 12

\* floor(r * 10^k / d) for 0 <= r < d, by long division.
RECURSIVE LongDiv(_, _, _)
LongDiv(r, d, k) ==
    IF k = 0 THEN 0
    ELSE LET t == r * 10
         IN  ((t \div d) * (10 ^ (k - 1))) + LongDiv(t % d, d, k - 1)

\* The non-negative rational a in fixed point (6 decimals), rounded down.
ToFix(a) == ((a.n \div a.d) * FixScale) + LongDiv(a.n % a.d, a.d, 6)

\* x * y for fixed-point 0 <= x, y <= 1, the product split to stay in range.
FixMul(x, y) ==
    ((((x * (y \div 1000)) * 2) + 1000) \div 2000)
      + ((((x * (y % 1000)) * 2) + FixScale) \div (2 * FixScale))

\* sum_{j >= k} (-1)^(j-k) y^j / j!  given term = y^k / k!.
RECURSIVE ExpSeries(_, _, _)
ExpSeries(y, term, k) ==
    IF k > ExpTerms \/ term = 0 THEN 0
    ELSE term - ExpSeries(y, FixMul(term, y) \div (k + 1), k + 1)

\* math.exp(x) for a rational -8 <= x <= 0, as a rational over FixScale:
\* exp(x) = exp(x / 8) ^ 8, the inner value from the alternating series.
math_exp(x) ==
    LET y  == ToFix(Rat(-x.n, 8 * x.d))
        e1 == ExpSeries(y, FixScale, 0)
        e2 == FixMul(e1, e1)
        e4 == FixMul(e2, e2)
        e8 == FixMul(e4, e4)
    IN  Rat(e8, FixScale)

\* size / e for an integer size and 0 < e < 1, kept to 1/SizeScale.
DivByExp(size, e) ==
    LET ef   == ToFix(e)
        q0   == FixScale \div ef
        r0   == FixScale % ef
        whole == (size * q0) + ((size * r0) \div ef)
        rest == (size * r0) % ef
    IN  Rat((whole * SizeScale) + LongDiv(rest, ef, 2), SizeScale)

-----------------------------------------------------------------------------
(* Genetic maps.                                                           *)

\* genetic_maps.GeneticMap.name: a map is known by the name of its class.
GeneticMap_name(cls) == cls.class

HapmapII_GRCh37 ==
    [class        |-> "HapmapII_GRCh37",
     url          |-> "http://ftp-trace.ncbi.nih.gov/1000genomes/ftp/technical/working/"
                      \o "20110106_recombination_hotspots/"
                      \o "HapmapII_GRCh37_RecombinationHotspots.tar.gz",
     file_pattern |-> "genetic_map_GRCh37_{name}.txt"]

\* genetic_maps.register_genetic_map: the catalog maps a map's name to the
\* map; a second registration under the same name replaces the first.
register_genetic_map(reg, m) ==
    [k \in (DOMAIN reg) \cup {GeneticMap_name(m)} |->
        IF k = GeneticMap_name(m) THEN m ELSE reg[k]]

-----------------------------------------------------------------------------
(* Genome definition.                                                      *)

_chromosome_data ==
<<
    "c", "h", "r", "1", " ", " ", " ", "2", "4", "8", "9", "5", "6", "4", "2", "2", "\n",
    "c", "h", "r", "2", " ", " ", " ", "2", "4", "2", "1", "9", "3", "5", "2", "9", "\n",
    "c", "h", "r", "3", " ", " ", " ", "1", "9", "8", "2", "9", "5", "5", "5", "9", "\n",
    "c", "h", "r", "4", " ", " ", " ", "1", "9", "0", "2", "1", "4", "5", "5", "5", "\n",
    "c", "h", "r", "5", " ", " ", " ", "1", "8", "1", "5", "3", "8", "2", "5", "9", "\n",
    "c", "h", "r", "6", " ", " ", " ", "1", "7", "0", "8", "0", "5", "9", "7", "9", "\n",
    "c", "h", "r", "7", " ", " ", " ", "1", "5", "9", "3", "4", "5", "9", "7", "3", "\n",
    "c", "h", "r", "8", " ", " ", " ", "1", "4", "5", "1", "3", "8", "6", "3", "6", "\n",
    "c", "h", "r", "9", " ", " ", " ", "1", "3", "8", "3", "9", "4", "7", "1", "7", "\n",
    "c", "h", "r", "1", "0", " ", " ", "1", "3", "3", "7", "9", "7", "4", "2", "2", "\n",
    "c", "h", "r", "1", "1", " ", " ", "1", "3", "5", "0", "8", "6", "6", "2", "2", "\n",
    "c", "h", "r", "1", "2", " ", " ", "1", "3", "3", "2", "7", "5", "3", "0", "9", "\n",
    "c", "h", "r", "1", "3", " ", " ", "1", "1", "4", "3", "6", "4", "3", "2", "8", "\n",
    "c", "h", "r", "1", "4", " ", " ", "1", "0", "7", "0", "4", "3", "7", "1", "8", "\n",
    "c", "h", "r", "1", "5", " ", " ", "1", "0", "1", "9", "9", "1", "1", "8", "9", "\n",
    "c", "h", "r", "1", "6", " ", " ", "9", "0", "3", "3", "8", "3", "4", "5", "\n",
    "c", "h", "r", "1", "7", " ", " ", "8", "3", "2", "5", "7", "4", "4", "1", "\n",
    "c", "h", "r", "1", "8", " ", " ", "8", "0", "3", "7", "3", "2", "8", "5", "\n",
    "c", "h", "r", "1", "9", " ", " ", "5", "8", "6", "1", "7", "6", "1", "6", "\n",
    "c", "h", "r", "2", "0", " ", " ", "6", "4", "4", "4", "4", "1", "6", "7", "\n",
    "c", "h", "r", "2", "1", " ", " ", "4", "6", "7", "0", "9", "9", "8", "3", "\n",
    "c", "h", "r", "2", "2", " ", " ", "5", "0", "8", "1", "8", "4", "6", "8", "\n",
    "c", "h", "r", "X", " ", " ", " ", "1", "5", "6", "0", "4", "0", "8", "9", "5", "\n",
    "c", "h", "r", "Y", " ", " ", " ", "5", "7", "2", "2", "7", "4", "1", "5", "\n"
>>

IsSpace(c) == c \in {" ", "\t", "\n"}

\* str.splitlines(): the lines of s without their line ends; a final line
\* end starts no further line.
LineEnds(s) == {i \in 1..Len(s) : s[i] = "\n"}

\* The k-th line end of s, or one past the end of s when there is none.
LineEnd(s, k) ==
    IF k > Cardinality(LineEnds(s)) THEN Len(s) + 1
    ELSE CHOOSE i \in LineEnds(s) : Cardinality({j \in LineEnds(s) : j < i}) = k - 1

splitlines(s) ==
    LET n == Cardinality(LineEnds(s))
               + (IF Len(s) > 0 /\ s[Len(s)] # "\n" THEN 1 ELSE 0)
    IN  [k \in 1..n |->
            SubSeq(s, (IF k = 1 THEN 1 ELSE LineEnd(s, k - 1) + 1), LineEnd(s, k) - 1)]

\* str.split() without a separator: the maximal runs of non-space characters.
RECURSIVE split_from(_, _, _)
split_from(s, i, cur) ==
    IF i > Len(s) THEN (IF cur = <<>> THEN <<>> ELSE <<cur>>)
    ELSE IF IsSpace(s[i])
         THEN (IF cur = <<>> THEN <<>> ELSE <<cur>>) \o split_from(s, i + 1, <<>>)
         ELSE split_from(s, i + 1, Append(cur, s[i]))

split(s) == split_from(s, 1, <<>>)

DigitValue(c) ==
    CASE c = "0" -> 0 [] c = "1" -> 1 [] c = "2" -> 2 [] c = "3" -> 3
      [] c = "4" -> 4 [] c = "5" -> 5 [] c = "6" -> 6 [] c = "7" -> 7
      [] c = "8" -> 8 [] c = "9" -> 9

\* int(w) for a word of decimal digits.
RECURSIVE int(_)
int(w) ==
    IF Len(w) = 1 THEN DigitValue(w[1])
    ELSE (int(SubSeq(w, 1, Len(w) - 1)) * 10) + DigitValue(w[Len(w)])

\* The Python string a character sequence stands for.
RECURSIVE Str(_)
Str(w) == IF w = <<>> THEN "" ELSE w[1] \o Str(Tail(w))

Chromosome(name, length, mean_mutation_rate, mean_recombination_rate) ==
    [name |-> name, length |-> length,
     mean_mutation_rate |-> mean_mutation_rate,
     mean_recombination_rate |-> mean_recombination_rate]

\* The chromosome the loop body builds from one line of the table.
ChromosomeOfLine(line) ==
    LET fields == SubSeq(split(line), 1, 2)
        name   == fields[1]
        length == fields[2]
    IN  Chromosome(Str(name), int(length), Rat(1, 100000000), Rat(1, 100000000))

genome_default_genetic_map_other_assembly == "HapmapII_GRCh38"

\* What the genome names as its default genetic map.
genome_default_genetic_map == GeneticMap_name(HapmapII_GRCh37)

Genome(species, chromosomes, default_genetic_map) ==
    [species |-> species, chromosomes |-> chromosomes,
     default_genetic_map |-> default_genetic_map]

-----------------------------------------------------------------------------
(* Demographic models: the objects of msprime the constructors build.      *)

PopulationConfiguration(initial_size, growth_rate) ==
    [initial_size |-> initial_size, growth_rate |-> growth_rate]

MassMigration(time, source, destination, proportion) ==
    [type |-> "MassMigration", time |-> time, source |-> source,
     destination |-> destination, proportion |-> proportion]

\* matrix_index <<>> is Python's None: the change applies to every pair.
MigrationRateChange(time, rate, matrix_index) ==
    [type |-> "MigrationRateChange", time |-> time, rate |-> rate,
     matrix_index |-> matrix_index]

PopulationParametersChange(time, initial_size, growth_rate, population_id) ==
    [type |-> "PopulationParametersChange", time |-> time,
     initial_size |-> initial_size, growth_rate |-> growth_rate,
     population_id |-> population_id]

\* models.Model.__init__: the fields every model starts from (one
\* population, nothing configured).
Model_init ==
    [population_configurations |-> <<>>,
     migration_matrix          |-> << <<Num(0)>> >>,
     demographic_events        |-> <<>>]

-----------------------------------------------------------------------------
(* GutenkunstThreePopOutOfAfrica.__init__                                  *)

OOA_N_A == 7300
OOA_N_B == 2100
OOA_N_AF == 12300
OOA_N_EU0 == 1000
OOA_N_AS0 == 510
OOA_generation_time == 25

OOA_T_AF == RatDiv(Num(220000), Num(OOA_generation_time))

OOA_T_B_typo == RatDiv(Num(14000), Num(OOA_generation_time))

OOA_T_B == RatDiv(Num(140000), Num(OOA_generation_time))

OOA_T_EU_AS == RatDiv(Num(21200), Num(OOA_generation_time))

OOA_r_EU == Rat(4, 1000)

OOA_r_AS == Rat(55, 10000)

OOA_N_EU_wrong_rate ==
    DivByExp(OOA_N_EU0, math_exp(RatMul(RatNeg(OOA_r_AS), OOA_T_EU_AS)))

OOA_N_EU == DivByExp(OOA_N_EU0, math_exp(RatMul(RatNeg(OOA_r_EU), OOA_T_EU_AS)))

OOA_N_AS == DivByExp(OOA_N_AS0, math_exp(RatMul(RatNeg(OOA_r_AS), OOA_T_EU_AS)))

OOA_m_AF_B == Rat(25, 100000)

OOA_m_AF_EU == Rat(3, 100000)

OOA_m_AF_AS == Rat(19, 1000000)

OOA_m_EU_AS == Rat(96, 1000000)

\* Entry i + 1 is population i; a growth rate that is not passed is None.
OOA_population_configurations ==
    << PopulationConfiguration(Num(OOA_N_AF), None),
       PopulationConfiguration(OOA_N_EU, OOA_r_EU),
       PopulationConfiguration(OOA_N_AS, OOA_r_AS) >>

OOA_migration_matrix_shifted ==
    << << OOA_m_AF_EU, Num(0),      OOA_m_AF_AS >>,
       << Num(0),      OOA_m_AF_EU, OOA_m_EU_AS >>,
       << OOA_m_AF_AS, OOA_m_EU_AS, Num(0)      >> >>

OOA_migration_matrix ==
    << << Num(0),      OOA_m_AF_EU, OOA_m_AF_AS >>,
       << OOA_m_AF_EU, Num(0),      OOA_m_EU_AS >>,
       << OOA_m_AF_AS, OOA_m_EU_AS, Num(0)      >> >>

OOA_demographic_events_reset_last ==
    << MassMigration(OOA_T_EU_AS, 2, 1, Num(1)),
       MigrationRateChange(OOA_T_EU_AS, OOA_m_AF_B, <<0, 1>>),
       MigrationRateChange(OOA_T_EU_AS, OOA_m_AF_B, <<1, 0>>),
       MigrationRateChange(OOA_T_EU_AS, Num(0), <<>>),
       PopulationParametersChange(OOA_T_EU_AS, Num(OOA_N_B), Num(0), 1),
       MassMigration(OOA_T_B, 1, 0, Num(1)),
       PopulationParametersChange(OOA_T_AF, Num(OOA_N_A), None, 0) >>

OOA_demographic_events ==
    << \* CEU and CHB merge into B with rate changes at T_EU_AS
       MassMigration(OOA_T_EU_AS, 2, 1, Num(1)),
       MigrationRateChange(OOA_T_EU_AS, Num(0), <<>>),
       MigrationRateChange(OOA_T_EU_AS, OOA_m_AF_B, <<0, 1>>),
       MigrationRateChange(OOA_T_EU_AS, OOA_m_AF_B, <<1, 0>>),
       PopulationParametersChange(OOA_T_EU_AS, Num(OOA_N_B), Num(0), 1),
       \* Population B merges into YRI at T_B
       MassMigration(OOA_T_B, 1, 0, Num(1)),
       \* Size changes to N_A at T_AF
       PopulationParametersChange(OOA_T_AF, Num(OOA_N_A), None, 0) >>

\* The object GutenkunstThreePopOutOfAfrica() returns.
GutenkunstThreePopOutOfAfrica ==
    [Model_init EXCEPT
        !.population_configurations = OOA_population_configurations,
        !.migration_matrix          = OOA_migration_matrix,
        !.demographic_events        = OOA_demographic_events]

-----------------------------------------------------------------------------
(* TennessenEuropean.__init__                                              *)

TE_N_A == 7310
TE_N_AF == 14474
TE_N_B == 1861
TE_N_EU1 == 9475
TE_generation_time == 25

TE_T_AF == RatDiv(Num(148000), Num(TE_generation_time))

TE_T_B == RatDiv(Num(51000), Num(TE_generation_time))

TE_T_EU0_typo == RatDiv(Num(2300), Num(TE_generation_time))

TE_T_EU0 == RatDiv(Num(23000), Num(TE_generation_time))

TE_T_EU1 == RatDiv(Num(5115), Num(TE_generation_time))

TE_r_EU0 == Rat(307, 100000)

TE_r_EU1 == Rat(195, 10000)

TE_N_EU == DivByExp(TE_N_EU1, math_exp(RatMul(RatNeg(TE_r_EU1), TE_T_EU1)))

TE_population_configurations ==
    << PopulationConfiguration(TE_N_EU, TE_r_EU1) >>

TE_demographic_events ==
    << PopulationParametersChange(TE_T_EU1, Num(TE_N_EU1), TE_r_EU0, 0),
       PopulationParametersChange(TE_T_EU0, Num(TE_N_B), Num(0), 0),
       PopulationParametersChange(TE_T_B, Num(TE_N_AF), Num(0), 0),
       PopulationParametersChange(TE_T_AF, Num(TE_N_A), Num(0), 0) >>

\* The object TennessenEuropean() returns.
TennessenEuropean ==
    [Model_init EXCEPT
        !.population_configurations = TE_population_configurations,
        !.demographic_events        = TE_demographic_events]

-----------------------------------------------------------------------------
(* The program: import, then constructions.                                *)

NoGenome == [species |-> "", chromosomes |-> <<>>, default_genetic_map |-> ""]

NoRegistry == [k \in {} |-> HapmapII_GRCh37]

Init ==
    /\ pc = "register_genetic_map"
    /\ registry = NoRegistry
    /\ line_no = 0
    /\ _chromosomes = <<>>
    /\ genome = NoGenome
    /\ instances = <<>>

\* genetic_maps.register_genetic_map(HapmapII_GRCh37()); _chromosomes = []
RegisterGeneticMap ==
    /\ pc = "register_genetic_map"
    /\ registry' = register_genetic_map(registry, HapmapII_GRCh37)
    /\ _chromosomes' = <<>>
    /\ line_no' = 1
    /\ pc' = "chromosomes"
    /\ UNCHANGED <<genome, instances>>

ParseChromosomeLine_insert_front ==
    /\ pc = "chromosomes"
    /\ line_no <= Len(splitlines(_chromosome_data))
    /\ _chromosomes' =
         <<ChromosomeOfLine(splitlines(_chromosome_data)[line_no])>> \o _chromosomes
    /\ line_no' = line_no + 1
    /\ UNCHANGED <<pc, registry, genome, instances>>

\* One pass of: for line in _chromosome_data.splitlines(): ... append(...)
ParseChromosomeLine ==
    /\ pc = "chromosomes"
    /\ line_no <= Len(splitlines(_chromosome_data))
    /\ _chromosomes' =
         Append(_chromosomes, ChromosomeOfLine(splitlines(_chromosome_data)[line_no]))
    /\ line_no' = line_no + 1
    /\ UNCHANGED <<pc, registry, genome, instances>>

\* The loop is exhausted: genome = genomes.Genome(...)
BuildGenome ==
    /\ pc = "chromosomes"
    /\ line_no > Len(splitlines(_chromosome_data))
    /\ genome' = Genome("homo_sapiens", _chromosomes, genome_default_genetic_map)
    /\ pc' = "imported"
    /\ UNCHANGED <<registry, line_no, _chromosomes, instances>>

Instance(class, model) == [class |-> class, model |-> model]

ConstructOutOfAfrica_registers ==
    /\ pc = "imported"
    /\ Len(instances) < MaxInstances
    /\ instances' = Append(instances,
           Instance("GutenkunstThreePopOutOfAfrica", GutenkunstThreePopOutOfAfrica))
    /\ registry' = register_genetic_map(registry,
           [HapmapII_GRCh37 EXCEPT !.class = "GutenkunstThreePopOutOfAfrica"])
    /\ UNCHANGED <<pc, line_no, _chromosomes, genome>>

\* A caller evaluates GutenkunstThreePopOutOfAfrica().
ConstructOutOfAfrica ==
    /\ pc = "imported"
    /\ Len(instances) < MaxInstances
    /\ instances' = Append(instances,
           Instance("GutenkunstThreePopOutOfAfrica", GutenkunstThreePopOutOfAfrica))
    /\ UNCHANGED <<pc, registry, line_no, _chromosomes, genome>>

ConstructTennessen_shared_events ==
    /\ pc = "imported"
    /\ Len(instances) < MaxInstances
    /\ instances' = Append(instances,
           Instance("TennessenEuropean",
               [TennessenEuropean EXCEPT !.demographic_events =
                   IF \E i \in DOMAIN instances : instances[i].class = "TennessenEuropean"
                   THEN TE_demographic_events \o TE_demographic_events
                   ELSE TE_demographic_events]))
    /\ UNCHANGED <<pc, registry, line_no, _chromosomes, genome>>

\* A caller evaluates TennessenEuropean().
ConstructTennessen ==
    /\ pc = "imported"
    /\ Len(instances) < MaxInstances
    /\ instances' = Append(instances, Instance("TennessenEuropean", TennessenEuropean))
    /\ UNCHANGED <<pc, registry, line_no, _chromosomes, genome>>

Next ==
    \/ RegisterGeneticMap
    \/ ParseChromosomeLine
    \/ BuildGenome
    \/ ConstructOutOfAfrica
    \/ ConstructTennessen

Spec == Init /\ [][Next]_vars

-----------------------------------------------------------------------------
(* The consumer's reading of the events (msprime): a migration rate change *)
(* without a matrix index sets every off-diagonal rate, one with an index  *)
(* (source, destination), counted from 0, sets that entry; mass migrations *)
(* and population parameter changes leave the matrix alone.                *)

ApplyEvent(matrix, e) ==
    IF e.type # "MigrationRateChange" THEN matrix
    ELSE IF e.matrix_index = <<>>
         THEN [j \in DOMAIN matrix |->
                 [k \in DOMAIN matrix[j] |-> IF j = k THEN matrix[j][k] ELSE e.rate]]
         ELSE [matrix EXCEPT ![e.matrix_index[1] + 1][e.matrix_index[2] + 1] = e.rate]

\* The matrix once the first k events of the list have been applied in order.
RECURSIVE ApplyPrefix(_, _, _)
ApplyPrefix(matrix, events, k) ==
    IF k = 0 THEN matrix
    ELSE ApplyEvent(ApplyPrefix(matrix, events, k - 1), events[k])

-----------------------------------------------------------------------------
(* Properties.                                                             *)

RatLt(a, b) == a.n * b.d < b.n * a.d

RatLe(a, b) == a.n * b.d <= b.n * a.d

InstancesOf(class) == {i \in DOMAIN instances : instances[i].class = class}

OutOfAfricaModels ==
    {instances[i].model : i \in InstancesOf("GutenkunstThreePopOutOfAfrica")}

TennessenModels == {instances[i].model : i \in InstancesOf("TennessenEuropean")}

Times(events) == [i \in DOMAIN events |-> events[i].time]

\* The rows of the embedded table, as written in the source text.
TableRows ==
    <<
       <<"chr1", 248956422>>,
       <<"chr2", 242193529>>,
       <<"chr3", 198295559>>,
       <<"chr4", 190214555>>,
       <<"chr5", 181538259>>,
       <<"chr6", 170805979>>,
       <<"chr7", 159345973>>,
       <<"chr8", 145138636>>,
       <<"chr9", 138394717>>,
       <<"chr10", 133797422>>,
       <<"chr11", 135086622>>,
       <<"chr12", 133275309>>,
       <<"chr13", 114364328>>,
       <<"chr14", 107043718>>,
       <<"chr15", 101991189>>,
       <<"chr16", 90338345>>,
       <<"chr17", 83257441>>,
       <<"chr18", 80373285>>,
       <<"chr19", 58617616>>,
       <<"chr20", 64444167>>,
       <<"chr21", 46709983>>,
       <<"chr22", 50818468>>,
       <<"chrX", 156040895>>,
       <<"chrY", 57227415>>
    >>

\* C1: after import the genome holds exactly 24 chromosome records, in the
\* order of the table's rows, each with its row's name and integer length
\* (chr1 has length 248956422, chrY has length 57227415).
C1_ChromosomesMatchTable ==
    pc = "imported" =>
        /\ Len(genome.chromosomes) = 24
        /\ Len(TableRows) = 24
        /\ \A i \in 1..24 :
              /\ genome.chromosomes[i].name = TableRows[i][1]
              /\ genome.chromosomes[i].length = TableRows[i][2]
        /\ genome.chromosomes[1].name = "chr1"
        /\ genome.chromosomes[1].length = 248956422
        /\ genome.chromosomes[24].name = "chrY"
        /\ genome.chromosomes[24].length = 57227415

C1_Witness ==
    /\ pc = "imported"
    /\ line_no = 25
    /\ genome.species = "homo_sapiens"
    /\ genome.chromosomes = _chromosomes
    /\ Len(_chromosomes) > 0

\* C2: after import the genome's default_genetic_map is the name of the
\* registered HapmapII_GRCh37 map, and that name is a key of the registry.
C2_DefaultMapRegistered ==
    pc = "imported" =>
        /\ genome.default_genetic_map \in DOMAIN registry
        /\ registry[genome.default_genetic_map] = HapmapII_GRCh37
        /\ GeneticMap_name(registry[genome.default_genetic_map])
             = genome.default_genetic_map

C2_Witness ==
    /\ pc = "imported"
    /\ genome.default_genetic_map = "HapmapII_GRCh37"
    /\ DOMAIN registry # {}

\* C3: a Tennessen European model has exactly 1 population configuration
\* and exactly 4 demographic events, whose times are, in list order,
\* 204.6 < 920 < 2040 < 5920 generations.
C3_TennessenShape ==
    \A m \in TennessenModels :
        /\ Len(m.population_configurations) = 1
        /\ Len(m.demographic_events) = 4
        /\ \A i \in 1..(Len(m.demographic_events) - 1) :
              RatLt(m.demographic_events[i].time, m.demographic_events[i + 1].time)
        /\ Times(m.demographic_events) = <<Rat(2046, 10), Num(920), Num(2040), Num(5920)>>

C3_Witness ==
    \E m \in TennessenModels : Len(m.demographic_events) > 0

\* C4: in an Out-of-Africa model every event is stamped with a time greater
\* than or equal to that of the event before it: five events at 848, then
\* one at 5600, then one at 8800 generations.
C4_OutOfAfricaTimesNonDecreasing ==
    \A m \in OutOfAfricaModels :
        /\ \A i \in 1..(Len(m.demographic_events) - 1) :
              RatLe(m.demographic_events[i].time, m.demographic_events[i + 1].time)
        /\ Times(m.demographic_events)
             = <<Num(848), Num(848), Num(848), Num(848), Num(848), Num(5600), Num(8800)>>

C4_Witness ==
    \E m \in OutOfAfricaModels : Len(m.demographic_events) = 7

\* C5: an Out-of-Africa model has exactly 3 population configurations and a
\* 3x3 migration matrix whose diagonal entries are all zero.
C5_OutOfAfricaMatrixShape ==
    \A m \in OutOfAfricaModels :
        /\ Len(m.population_configurations) = 3
        /\ Len(m.migration_matrix) = 3
        /\ \A j \in 1..3 :
              /\ Len(m.migration_matrix[j]) = 3
              /\ m.migration_matrix[j][j] = Num(0)

C5_Witness ==
    \E m \in OutOfAfricaModels :
        \E j, k \in 1..3 : m.migration_matrix[j][k] # Num(0)

C7_RegistryMutatedOnceAtImport ==
    [][ /\ (registry' # registry =>
               pc = "register_genetic_map" /\ pc' # "register_genetic_map")
        /\ (pc = "imported" => registry' = registry /\ genome' = genome)
        /\ (pc' = "imported" => DOMAIN registry' = {"HapmapII_GRCh37"}) ]_vars

C7_Witness ==
    /\ pc = "imported"
    /\ Len(instances) >= 2
    /\ instances[1].class # instances[2].class
    /\ DOMAIN registry = {"HapmapII_GRCh37"}
    /\ Len(genome.chromosomes) = 24

\* C8: in an Out-of-Africa model population 1 starts at the back-calculated
\* N_EU = 1000 / exp(-0.004 * 848) = 29725.34..., to within one individual
\* (the precision of the fixed-point exponential), growing at r_EU = 0.004,
\* where 848 = 21200 / 25 is the time stamped on the first event.
C8_BackCalculatedNEU ==
    \A m \in OutOfAfricaModels :
        /\ m.demographic_events[1].time = Num(848)
        /\ m.population_configurations[2].growth_rate = Rat(4, 1000)
        /\ RatLe(Rat(2972434, 100), m.population_configurations[2].initial_size)
        /\ RatLe(m.population_configurations[2].initial_size, Rat(2972634, 100))

C8_Witness ==
    \E m \in OutOfAfricaModels :
        RatLt(Num(OOA_N_EU0), m.population_configurations[2].initial_size)

\* The events of the list stamped with the time of its first event.
FirstEpoch(events) == {i \in DOMAIN events : events[i].time = events[1].time}

IsGlobalReset(e) ==
    e.type = "MigrationRateChange" /\ e.matrix_index = <<>> /\ e.rate = Num(0)

IsPairwiseChange(e) ==
    e.type = "MigrationRateChange" /\ e.matrix_index # <<>>

\* C9: among the events stamped T_EU_AS the global reset of all migration
\* rates to zero comes before the two pairwise rate changes, so that once
\* all of them have been applied in list order the matrix holds
\* m_AF_B = 25e-5 at exactly (0,1) and (1,0) and zero everywhere else.
C9_ResetBeforePairwise ==
    \A m \in OutOfAfricaModels :
        LET events == m.demographic_events
            epoch  == FirstEpoch(events)
            after  == ApplyPrefix(m.migration_matrix, events, Cardinality(epoch))
        IN  /\ epoch = 1..Cardinality(epoch)
            /\ events[1].time = Num(848)
            /\ \E r \in epoch :
                  /\ IsGlobalReset(events[r])
                  /\ Cardinality({p \in epoch : IsPairwiseChange(events[p])}) = 2
                  /\ \A p \in epoch : IsPairwiseChange(events[p]) => r < p
            /\ \A j, k \in 1..3 :
                  after[j][k] = IF <<j, k>> \in {<<1, 2>>, <<2, 1>>}
                                THEN Rat(25, 100000) ELSE Num(0)

C9_Witness ==
    \E m \in OutOfAfricaModels :
        /\ ApplyPrefix(m.migration_matrix, m.demographic_events, 1) = m.migration_matrix
        /\ ApplyPrefix(m.migration_matrix, m.demographic_events, 2) # m.migration_matrix
        /\ ApplyPrefix(m.migration_matrix, m.demographic_events, 4)
             # ApplyPrefix(m.migration_matrix, m.demographic_events, 2)

IsMergeIntoZero(e) ==
    e.type = "MassMigration" /\ e.source = 1 /\ e.destination = 0
      /\ e.proportion = Num(1)

\* C10: once the mass migration of population 1 into population 0 at T_B
\* has been applied, every entry of the migration matrix is zero: after any
\* prefix of the event list that includes that event no lineage can move
\* between populations.
C10_MergePermanent ==
    \A m \in OutOfAfricaModels :
        \A b \in DOMAIN m.demographic_events :
            IsMergeIntoZero(m.demographic_events[b]) =>
                \A n \in b..Len(m.demographic_events) :
                    \A j, k \in 1..3 :
                        ApplyPrefix(m.migration_matrix, m.demographic_events, n)[j][k]
                          = Num(0)

====
